---- MODULE Spec2Model ----
(***************************************************************************)
(* The resumable paginated fetcher of data/scripts/fetch_launches.py:      *)
(* load_existing_data, save_data and the loop of                           *)
(* fetch_launches_thespacedevs, run any number of times against an         *)
(* append-only list endpoint, with the process killed between any two      *)
(* statements.                                                             *)
(*                                                                         *)
(* A launch record is identified by its position in the endpoint's        *)
(* listing (record i is the i-th launch).  The state file is kept as the   *)
(* compact JSON text json.dump writes, a sequence of tokens, and read      *)
(* back by a parser; "disk" is the history of what was handed to           *)
(* save_data, kept apart from the text.                                    *)
(*                                                                         *)
(* The sighting scraper of data/scripts/nuforc_scraping.py is a second     *)
(* script: generate_months, scrape_month and the loop of                   *)
(* scrape_nuforc_data, run against a listing page whose table is redrawn   *)
(* some time after the "next" control is clicked.  Each script has its own *)
(* variables and its own specification; the other script's variables stay  *)
(* as they start.                                                          *)
(***************************************************************************)
EXTENDS Integers, Sequences, FiniteSets, TLC

VARIABLES
    file,          \* DATA_FILE: [exists, text], text the JSON tokens
    available,     \* number of launches the endpoint lists
    pc,            \* position of the script
    offset,        \* local offset
    all_launches,  \* local all_launches
    response,      \* local response
    results,       \* local results
    reqLog,        \* history: the offset parameter of each request of this run
    respLog,       \* history: the response to each answered request of this run
    disk,          \* history: the dataset last handed to save_data
    disk0,         \* history: disk when this run started
    avail0,        \* history: available when this run started
    writes,        \* history: number of writes of DATA_FILE in this run
    fresh,         \* history: no DATA_FILE existed before the first run
    prevExit,      \* history: how the run before this one ended, as far as the
                   \* properties tell the cases apart: "http_error" or "other"
    shortSeen,     \* history: a page of fewer than limit records was saved
    \* generate_months, called on its own
    g_pc,          \* "idle", "called" or "returned"
    g_start,       \* argument start, a 'yyyymm' string
    g_end,         \* argument end, a 'yyyymm' string
    g_months,      \* the list returned
    \* scrape_nuforc_data and scrape_month
    s_pc,          \* position of the script
    months,        \* scrape_nuforc_data: months
    month_ix,      \* scrape_nuforc_data: index in months of the loop variable month
    all_rows,      \* scrape_nuforc_data: all_rows
    month_data,    \* scrape_nuforc_data: month_data
    total_records, \* scrape_month: total_records
    scraped_rows,  \* scrape_month: scraped_rows
    dom,           \* the listing page in the browser
    tables,        \* history: the table rows parsed for this month, per parse
    exits          \* history: how scrape_month was left and with how many
                   \* rows, for each month so far

fetchVars == <<file, available, pc, offset, all_launches, response, results,
               reqLog, respLog, disk, disk0, avail0, writes, fresh, prevExit,
               shortSeen>>

genVars == <<g_pc, g_start, g_end, g_months>>

scrapeVars == <<s_pc, months, month_ix, all_rows, month_data, total_records,
                scraped_rows, dom, tables, exits>>

vars == <<fetchVars, genVars, scrapeVars>>

----------------------------------------------------------------------------
(* Program constant and bounds of the model *)

limit == 100

\* the endpoint lists p full pages plus 0 or LastPage records, p <= MaxFullPages
MaxFullPages == 2
LastPage == 42

Sizes == {p * limit + t : p \in 0..MaxFullPages, t \in {0, LastPage}}

\* a state file left by an earlier use of the script
PriorDatasets ==
    {[exists |-> TRUE, offset |-> 0, results |-> <<1, 1>>],
     [exists |-> TRUE, offset |-> LastPage, results |-> <<2, 1>>]}

ErrorStatuses == {429, 500}

----------------------------------------------------------------------------
(* JSON text: json.dump(data, f, separators=(',', ':')) and json.load *)

Punct(c) == [k |-> "punct", s |-> c, n |-> 0]
Str(s) == [k |-> "string", s |-> s, n |-> 0]
Num(n) == [k |-> "number", s |-> "", n |-> n]

LBRACE == Punct("{")
RBRACE == Punct("}")
LBRACK == Punct("[")
RBRACK == Punct("]")
COLON == Punct(":")
COMMA == Punct(",")

\* a list of records, compact: r1,r2,...,rn between brackets
DumpList(xs) ==
    <<LBRACK>>
    \o [i \in 1..(IF Len(xs) = 0 THEN 0 ELSE 2 * Len(xs) - 1) |->
            IF i % 2 = 1 THEN Num(xs[(i + 1) \div 2]) ELSE COMMA]
    \o <<RBRACK>>

\* json.dump of {"offset": offset, "results": results}, keys in insertion order
JsonDump(data) ==
    <<LBRACE, Str("offset"), COLON, Num(data.offset), COMMA,
      Str("results"), COLON>> \o DumpList(data.results) \o <<RBRACE>>

\* the members of an object from token i on; a repeated key keeps its last value
RECURSIVE ParseMembers(_, _, _)
ParseMembers(text, i, acc) ==
    IF text[i] = RBRACE THEN acc
    ELSE LET key == text[i].s
             v == i + 2
             isList == text[v] = LBRACK
             close == CHOOSE j \in v..Len(text) :
                         /\ text[j] = RBRACK
                         /\ \A m \in v..(j - 1) : text[m] # RBRACK
             value == IF isList
                      THEN [e \in 1..((close - v) \div 2) |-> text[v + 2 * e - 1].n]
                      ELSE text[v].n
             next == IF isList THEN close + 1 ELSE v + 1
             acc2 == (key :> value) @@ acc
         IN  IF text[next] = COMMA THEN ParseMembers(text, next + 1, acc2) ELSE acc2

JsonLoad(text) == ParseMembers(text, 2, <<>>)

\* dict.get(key, default)
DictGet(d, key, default) == IF key \in DOMAIN d THEN d[key] ELSE default

NoFile == [exists |-> FALSE, text |-> <<>>]

\* a slip: the run always starts over at offset 0
LoadIgnoringOffset(f) ==
    IF f.exists
    THEN LET data == JsonLoad(f.text)
         IN  [offset |-> 0, results |-> DictGet(data, "results", <<>>)]
    ELSE [offset |-> 0, results |-> <<>>]

\* a slip: the records already fetched are not read back
LoadIgnoringResults(f) ==
    IF f.exists
    THEN LET data == JsonLoad(f.text)
         IN  [offset |-> DictGet(data, "offset", 0), results |-> <<>>]
    ELSE [offset |-> 0, results |-> <<>>]

load_existing_data(f) ==
    IF f.exists
    THEN LET data == JsonLoad(f.text)
         IN  [offset |-> DictGet(data, "offset", 0),
              results |-> DictGet(data, "results", <<>>)]
    ELSE [offset |-> 0, results |-> <<>>]

save_data(off, res) ==
    [exists |-> TRUE, text |-> JsonDump([offset |-> off, results |-> res])]

----------------------------------------------------------------------------
(* The endpoint: GET with limit and offset answers the records listed at     *)
(* positions offset+1 .. offset+limit, as far as they exist.                 *)

Min(a, b) == IF a < b THEN a ELSE b

Page(n, lim, off) ==
    [i \in 1..(IF off >= n THEN 0 ELSE Min(lim, n - off)) |-> off + i]

OkResponse(n, lim, off) ==
    [status_code |-> 200, body |-> [count |-> n, results |-> Page(n, lim, off)]]

ErrorResponse(code) ==
    [status_code |-> code, body |-> [detail |-> "error"]]

NoResponse == [status_code |-> 0, body |-> <<>>]

----------------------------------------------------------------------------
(* The conditions and updates of the loop *)

\* if response.status_code != 200
StatusFailed(r) == r.status_code # 200

\* a slip: an empty page is not taken as the end of the data
NoResultsNever(res) == FALSE

\* if not results
NoResults(res) == Len(res) = 0

\* a slip: the cursor counts pages, not records
NextOffsetByPage(off) == off + 1

\* offset += limit
NextOffset(off) == off + limit

\* a slip: a short page is not taken as the last one
IsLastPageNever(res) == FALSE

\* if len(results) < limit
IsLastPage(res) == Len(res) < limit

Running == {"request", "status", "parse", "extend", "bump", "save", "short"}
Stopped == {"idle", "done", "raised", "killed"}

Last(s) == s[Len(s)]

\* how the run that last stopped came to stop: on a failed request, on an
\* empty or short page of a listing that has not grown since ("settled"), or
\* otherwise
ExitKind ==
    IF pc = "done" /\ StatusFailed(Last(respLog)) THEN "http_error"
    ELSE IF pc = "done" /\ Last(respLog).body.count = available THEN "settled"
    ELSE "other"

NoDisk == [exists |-> FALSE, offset |-> 0, results |-> <<>>]

\* the listing page before driver.get
NoPage == [info |-> "absent", total |-> 0, rows |-> <<>>, shown |-> 1,
           drawn |-> 1, table |-> "absent", next |-> FALSE]

\* generate_months has not been called
GenIdle ==
    /\ g_pc = "idle"
    /\ g_start = <<>>
    /\ g_end = <<>>
    /\ g_months = <<>>

\* the scraper has not been started
ScrapeIdle ==
    /\ s_pc = "idle"
    /\ months = <<>>
    /\ month_ix = 0
    /\ all_rows = <<>>
    /\ month_data = <<>>
    /\ total_records = 0
    /\ scraped_rows = <<>>
    /\ dom = NoPage
    /\ tables = <<>>
    /\ exits = <<>>

FetchInit ==
    /\ available \in Sizes
    /\ \E d \in {NoDisk} \cup PriorDatasets :
          /\ disk = d
          /\ disk0 = d
          /\ file = IF d.exists THEN save_data(d.offset, d.results) ELSE NoFile
          /\ fresh = ~d.exists
    /\ pc = "idle"
    /\ offset = 0
    /\ all_launches = <<>>
    /\ response = NoResponse
    /\ results = <<>>
    /\ reqLog = <<>>
    /\ respLog = <<>>
    /\ avail0 = available
    /\ writes = 0
    /\ prevExit = "other"
    /\ shortSeen = FALSE

\* the fetcher has not been started: no state file, an empty listing
FetchIdle ==
    /\ FetchInit
    /\ available = 0
    /\ ~disk.exists

Init == FetchInit /\ GenIdle /\ ScrapeIdle

\* the script is started: offset, all_launches = load_existing_data(DATA_FILE)
Start ==
    /\ pc \in Stopped
    /\ LET r == load_existing_data(file)
       IN  /\ offset' = r.offset
           /\ all_launches' = r.results
    /\ pc' = "request"
    /\ response' = NoResponse
    /\ results' = <<>>
    /\ reqLog' = <<>>
    /\ respLog' = <<>>
    /\ disk0' = disk
    /\ avail0' = available
    /\ writes' = 0
    /\ prevExit' = ExitKind
    /\ UNCHANGED <<file, available, disk, fresh, shortSeen>>
    /\ UNCHANGED <<genVars, scrapeVars>>

\* response = requests.get(base_url, params={limit, offset}), answered
Request ==
    /\ pc = "request"
    /\ \E r \in {OkResponse(available, limit, offset)}
                \cup {ErrorResponse(c) : c \in ErrorStatuses} :
          /\ response' = r
          /\ respLog' = Append(respLog, r)
    /\ reqLog' = Append(reqLog, offset)
    /\ pc' = "status"
    /\ UNCHANGED <<file, available, offset, all_launches, results,
                   disk, disk0, avail0, writes, fresh, prevExit, shortSeen>>
    /\ UNCHANGED <<genVars, scrapeVars>>

\* requests.get raises (no connection): the exception leaves the script
RequestRaises ==
    /\ pc = "request"
    /\ reqLog' = Append(reqLog, offset)
    /\ pc' = "raised"
    /\ UNCHANGED <<file, available, offset, all_launches, response, results,
                   respLog, disk, disk0, avail0, writes, fresh, prevExit, shortSeen>>
    /\ UNCHANGED <<genVars, scrapeVars>>

\* a slip: response.raise_for_status() in place of the break
CheckStatusRaising ==
    /\ pc = "status"
    /\ pc' = IF StatusFailed(response) THEN "raised" ELSE "parse"
    /\ UNCHANGED <<file, available, offset, all_launches, response, results,
                   reqLog, respLog, disk, disk0, avail0, writes, fresh, prevExit, shortSeen>>
    /\ UNCHANGED <<genVars, scrapeVars>>

\* if response.status_code != 200: break
CheckStatus ==
    /\ pc = "status"
    /\ pc' = IF StatusFailed(response) THEN "done" ELSE "parse"
    /\ UNCHANGED <<file, available, offset, all_launches, response, results,
                   reqLog, respLog, disk, disk0, avail0, writes, fresh, prevExit, shortSeen>>
    /\ UNCHANGED <<genVars, scrapeVars>>

\* results = response.json().get("results", []); if not results: break
Parse ==
    /\ pc = "parse"
    /\ results' = DictGet(response.body, "results", <<>>)
    /\ pc' = IF NoResults(results') THEN "done" ELSE "extend"
    /\ UNCHANGED <<file, available, offset, all_launches, response,
                   reqLog, respLog, disk, disk0, avail0, writes, fresh, prevExit, shortSeen>>
    /\ UNCHANGED <<genVars, scrapeVars>>

\* a slip: records already in the list are not appended again
ExtendSkippingKnown ==
    /\ pc = "extend"
    /\ all_launches' = all_launches \o
          SelectSeq(results,
                    LAMBDA r : \A i \in 1..Len(all_launches) : all_launches[i] # r)
    /\ pc' = "bump"
    /\ UNCHANGED <<file, available, offset, response, results,
                   reqLog, respLog, disk, disk0, avail0, writes, fresh, prevExit, shortSeen>>
    /\ UNCHANGED <<genVars, scrapeVars>>

\* a slip: all_launches = results, the list is replaced by the new page
ExtendReplacing ==
    /\ pc = "extend"
    /\ all_launches' = results
    /\ pc' = "bump"
    /\ UNCHANGED <<file, available, offset, response, results,
                   reqLog, respLog, disk, disk0, avail0, writes, fresh, prevExit, shortSeen>>
    /\ UNCHANGED <<genVars, scrapeVars>>

\* all_launches.extend(results)
Extend ==
    /\ pc = "extend"
    /\ all_launches' = all_launches \o results
    /\ pc' = "bump"
    /\ UNCHANGED <<file, available, offset, response, results,
                   reqLog, respLog, disk, disk0, avail0, writes, fresh, prevExit, shortSeen>>
    /\ UNCHANGED <<genVars, scrapeVars>>

\* offset += limit
Bump ==
    /\ pc = "bump"
    /\ offset' = NextOffset(offset)
    /\ pc' = "save"
    /\ UNCHANGED <<file, available, all_launches, response, results,
                   reqLog, respLog, disk, disk0, avail0, writes, fresh, prevExit, shortSeen>>
    /\ UNCHANGED <<genVars, scrapeVars>>

\* a slip: the file is written once after the loop, not after every page
SaveDeferred ==
    /\ pc = "save"
    /\ pc' = "short"
    /\ UNCHANGED <<file, available, offset, all_launches, response, results,
                   reqLog, respLog, disk, disk0, avail0, writes, fresh, prevExit, shortSeen>>
    /\ UNCHANGED <<genVars, scrapeVars>>

\* a slip: save_data(DATA_FILE, offset, results), the newest page only
SaveNewestPage ==
    /\ pc = "save"
    /\ file' = save_data(offset, results)
    /\ disk' = [exists |-> TRUE, offset |-> offset, results |-> results]
    /\ writes' = writes + 1
    /\ shortSeen' = (shortSeen \/ Len(results) < limit)
    /\ pc' = "short"
    /\ UNCHANGED <<available, offset, all_launches, response, results,
                   reqLog, respLog, disk0, avail0, fresh, prevExit>>
    /\ UNCHANGED <<genVars, scrapeVars>>

\* save_data(DATA_FILE, offset, all_launches)
Save ==
    /\ pc = "save"
    /\ file' = save_data(offset, all_launches)
    /\ disk' = [exists |-> TRUE, offset |-> offset, results |-> all_launches]
    /\ writes' = writes + 1
    /\ shortSeen' = (shortSeen \/ Len(results) < limit)
    /\ pc' = "short"
    /\ UNCHANGED <<available, offset, all_launches, response, results,
                   reqLog, respLog, disk0, avail0, fresh, prevExit>>
    /\ UNCHANGED <<genVars, scrapeVars>>

\* if len(results) < limit: break
CheckShort ==
    /\ pc = "short"
    /\ pc' = IF IsLastPage(results) THEN "done" ELSE "request"
    /\ UNCHANGED <<file, available, offset, all_launches, response, results,
                   reqLog, respLog, disk, disk0, avail0, writes, fresh, prevExit, shortSeen>>
    /\ UNCHANGED <<genVars, scrapeVars>>

\* the process is killed between two statements: its memory is gone, and
\* the history of the run with it
Kill ==
    /\ pc \in Running
    /\ pc' = "killed"
    /\ offset' = 0
    /\ all_launches' = <<>>
    /\ response' = NoResponse
    /\ results' = <<>>
    /\ reqLog' = <<>>
    /\ respLog' = <<>>
    /\ disk0' = disk
    /\ avail0' = available
    /\ writes' = 0
    /\ prevExit' = "other"
    /\ UNCHANGED <<file, available, disk, fresh, shortSeen>>
    /\ UNCHANGED <<genVars, scrapeVars>>

\* launches are added at the end of the endpoint's listing
Publish ==
    /\ \E n \in Sizes : n > available /\ available' = n
    /\ UNCHANGED <<file, pc, offset, all_launches, response, results,
                   reqLog, respLog, disk, disk0, avail0, writes, fresh, prevExit, shortSeen>>
    /\ UNCHANGED <<genVars, scrapeVars>>

Next ==
    \/ Start
    \/ Request
    \/ RequestRaises
    \/ CheckStatus
    \/ Parse
    \/ Extend
    \/ Bump
    \/ Save
    \/ CheckShort
    \/ Kill
    \/ Publish

Spec == Init /\ [][Next]_vars

\* the fairness of a process that is not killed: its next statement is executed
RunStep ==
    \/ Request
    \/ RequestRaises
    \/ CheckStatus
    \/ Parse
    \/ Extend
    \/ Bump
    \/ Save
    \/ CheckShort

FairSpec == Init /\ [][Next]_vars /\ WF_vars(RunStep)

\* response = requests.get(...), answered with status 200
RequestOk ==
    /\ pc = "request"
    /\ response' = OkResponse(available, limit, offset)
    /\ respLog' = Append(respLog, response')
    /\ reqLog' = Append(reqLog, offset)
    /\ pc' = "status"
    /\ UNCHANGED <<file, available, offset, all_launches, results,
                   disk, disk0, avail0, writes, fresh, prevExit, shortSeen>>
    /\ UNCHANGED <<genVars, scrapeVars>>

\* runs that nothing disturbs: every request is answered 200 and no run is
\* killed; the listing grows at its end between and during the runs
CleanNext ==
    \/ Start
    \/ RequestOk
    \/ CheckStatus
    \/ Parse
    \/ Extend
    \/ Bump
    \/ Save
    \/ CheckShort
    \/ Publish

CleanSpec == Init /\ [][CleanNext]_vars

----------------------------------------------------------------------------
(* generate_months.  A 'yyyymm' string is the sequence of its six digits. *)

\* the years the period strings are taken from
FirstYear == 2023
MaxYears == 2

\* int(s) of a string of digits
RECURSIVE StrToInt(_)
StrToInt(ds) ==
    IF ds = <<>> THEN 0
    ELSE 10 * StrToInt(SubSeq(ds, 1, Len(ds) - 1)) + ds[Len(ds)]

\* str(n), n >= 0
RECURSIVE IntToStr(_)
IntToStr(n) == IF n < 10 THEN <<n>> ELSE IntToStr(n \div 10) \o <<n % 10>>

\* f"{month:02d}"
Pad2(n) == IF n < 10 THEN <<0>> \o IntToStr(n) ELSE IntToStr(n)

\* f"{year}{month:02d}"
MonthToken(year, month) == IntToStr(year) \o Pad2(month)

\* a slip: the roll-over is taken one month early, December is never listed
StepMonthEarly(year, month) ==
    IF month + 1 >= 12 THEN <<year + 1, 1>> ELSE <<year, month + 1>>

\* month += 1; if month > 12: month = 1; year += 1
StepMonth(year, month) ==
    IF month + 1 > 12 THEN <<year + 1, 1>> ELSE <<year, month + 1>>

\* while (year < end_year) or (year == end_year and month <= end_month)
InRange(year, month, end_year, end_month) ==
    (year < end_year) \/ (year = end_year /\ month <= end_month)

RECURSIVE MonthsLoop(_, _, _, _, _)
MonthsLoop(year, month, end_year, end_month, acc) ==
    IF InRange(year, month, end_year, end_month)
    THEN LET n == StepMonth(year, month)
         IN  MonthsLoop(n[1], n[2], end_year, end_month,
                        Append(acc, MonthToken(year, month)))
    ELSE acc

generate_months(start, end) ==
    LET start_year == StrToInt(SubSeq(start, 1, 4))
        start_month == StrToInt(SubSeq(start, 5, 6))
        end_year == StrToInt(SubSeq(end, 1, 4))
        end_month == StrToInt(SubSeq(end, 5, 6))
    IN  MonthsLoop(start_year, start_month, end_year, end_month, <<>>)

\* the valid 'yyyymm' strings of the years considered
Periods ==
    {MonthToken(y, m) : y \in FirstYear..(FirstYear + MaxYears), m \in 1..12}

GenInit ==
    /\ FetchIdle
    /\ ScrapeIdle
    /\ g_pc = "called"
    /\ g_start \in Periods
    /\ g_end \in Periods
    /\ g_months = <<>>

\* months = generate_months(start, end)
Generate ==
    /\ g_pc = "called"
    /\ g_months' = generate_months(g_start, g_end)
    /\ g_pc' = "returned"
    /\ UNCHANGED <<g_start, g_end, fetchVars, scrapeVars>>

GenNext == Generate

GenSpec == GenInit /\ [][GenNext]_vars

----------------------------------------------------------------------------
(* scrape_month and scrape_nuforc_data.                                      *)
(*                                                                           *)
(* The listing of a month is a sequence of table rows, a row a sequence of   *)
(* cells, shown RowsPerPage rows at a time.  dom.shown is the page of the    *)
(* listing the site has been asked for, dom.drawn the page the table and     *)
(* the "next" control show: a click on "next" asks for the next page, and    *)
(* the table is redrawn some time later, before or after the fixed           *)
(* time.sleep(waiting_time) has elapsed.                                     *)

\* rows of a month's listing, rows a table page shows, the largest total
\* the info text reports
MaxRows == 3
RowsPerPage == 2
MaxTotal == 5

\* if len(cols) >= 5
MinCols == 5
\* cols[6] is read: a full row has 7 cells
FullCols == 7

\* the text of cell c of row r of month m, as the page holds it (not stripped)
Cell(m, r, c) == [text |-> 100 * m + 10 * r + c, padded |-> TRUE]

\* str.strip()
Strip(t) == [text |-> t.text, padded |-> FALSE]

TableRow(m, r, ncells) == [c \in 1..ncells |-> Cell(m, r, c - 1)]

\* the listings considered for month m: n rows of 7 cells, the last row
\* possibly of 4 or of 5 cells
Listings(m) ==
    {[r \in 1..n |-> TableRow(m, r, IF r = n THEN w ELSE FullCols)] :
        n \in 0..MaxRows, w \in {MinCols - 1, MinCols, FullCols}}

\* the pages driver.get may load for month m
Pages(m) ==
    {[info |-> "absent", total |-> 0, rows |-> <<>>, shown |-> 1, drawn |-> 1,
      table |-> "ok", next |-> TRUE],
     [info |-> "nomatch", total |-> 0, rows |-> <<>>, shown |-> 1, drawn |-> 1,
      table |-> "ok", next |-> TRUE]}
    \cup {[info |-> "total", total |-> t, rows |-> l, shown |-> 1, drawn |-> 1,
           table |-> "ok", next |-> TRUE] :
             l \in Listings(m), t \in {0, MaxTotal}}
    \cup {[info |-> "total", total |-> Len(l), rows |-> l, shown |-> 1, drawn |-> 1,
           table |-> "ok", next |-> TRUE] : l \in Listings(m)}

LastPageOf(d) ==
    IF Len(d.rows) = 0 THEN 1 ELSE (Len(d.rows) + RowsPerPage - 1) \div RowsPerPage

\* the rows of the table as drawn
DrawnRows(d) ==
    SubSeq(d.rows, (d.drawn - 1) * RowsPerPage + 1,
           Min(d.drawn * RowsPerPage, Len(d.rows)))

\* "disabled" in next_button.get_attribute("class")
NextDisabled(d) == d.drawn >= LastPageOf(d)

\* cols[k], k counted from 0
Col(cols, k) == cols[k + 1]

\* the dictionary appended for a row
Record(cols) ==
    [datetime |-> Strip(Col(cols, 1)),
     city |-> Strip(Col(cols, 2)),
     state |-> Strip(Col(cols, 3)),
     country |-> Strip(Col(cols, 4)),
     shape |-> Strip(Col(cols, 5)),
     summary |-> Strip(Col(cols, 6))]

\* if len(cols) >= 5
HasMinCols(cols) == Len(cols) >= MinCols

\* cols[5] or cols[6] does not exist: IndexError
RaisesIndexError(cols) == HasMinCols(cols) /\ Len(cols) < FullCols

\* for row in tbody.find_all("tr"): ... scraped_rows.append({...}),
\* up to the first row that raises
RECURSIVE AppendRows(_, _)
AppendRows(acc, rows) ==
    IF rows = <<>> THEN [raised |-> FALSE, out |-> acc]
    ELSE LET cols == Head(rows)
         IN  IF ~HasMinCols(cols) THEN AppendRows(acc, Tail(rows))
             ELSE IF RaisesIndexError(cols) THEN [raised |-> TRUE, out |-> acc]
             ELSE AppendRows(Append(acc, Record(cols)), Tail(rows))

\* the start and end periods the scraper is run with
ScrapeRanges ==
    {<<MonthToken(FirstYear, 12), MonthToken(FirstYear, 12)>>,
     <<MonthToken(FirstYear, 12), MonthToken(FirstYear + 1, 1)>>,
     <<MonthToken(FirstYear + 1, 1), MonthToken(FirstYear, 12)>>}

InMonth == {"info", "loop", "table", "done_check", "find_next", "next_class", "click"}

ScrapeInit ==
    /\ FetchIdle
    /\ GenIdle
    /\ ScrapeIdle

\* scrape_nuforc_data: months = generate_months(...); init_driver; all_rows = []
ScrapeStart ==
    /\ s_pc = "idle"
    /\ \E r \in ScrapeRanges : months' = generate_months(r[1], r[2])
    /\ month_ix' = 0
    /\ all_rows' = <<>>
    /\ s_pc' = "for"
    /\ UNCHANGED <<month_data, total_records, scraped_rows, dom, tables, exits>>
    /\ UNCHANGED <<fetchVars, genVars>>

\* for month in months: the next month, or driver.quit() and the DataFrame
ForMonth ==
    /\ s_pc = "for"
    /\ IF month_ix < Len(months)
       THEN /\ month_ix' = month_ix + 1
            /\ s_pc' = "get"
       ELSE /\ month_ix' = month_ix
            /\ s_pc' = "finished"
    /\ UNCHANGED <<months, all_rows, month_data, total_records, scraped_rows,
                   dom, tables, exits>>
    /\ UNCHANGED <<fetchVars, genVars>>

\* scrape_month: driver.get(url); time.sleep(waiting_time)
Get ==
    /\ s_pc = "get"
    /\ dom' \in Pages(month_ix)
    /\ scraped_rows' = <<>>
    /\ total_records' = 0
    /\ tables' = <<>>
    /\ s_pc' = "info"
    /\ UNCHANGED <<months, month_ix, all_rows, month_data, exits>>
    /\ UNCHANGED <<fetchVars, genVars>>

\* scrape_month leaves through return: month_data = scrape_month(...)
Return(why, rows) ==
    /\ month_data' = rows
    /\ exits' = Append(exits, [why |-> why, n |-> Len(rows)])
    /\ s_pc' = "extend"

\* a slip: records_info.text is read without the test for None
ReadInfoUnguarded ==
    /\ s_pc = "info"
    /\ IF dom.info = "absent" THEN
            /\ s_pc' = "raised"
            /\ UNCHANGED <<total_records, scraped_rows, month_data, exits>>
       ELSE IF dom.info = "nomatch" THEN
            /\ Return("no_match", <<>>)
            /\ UNCHANGED <<total_records, scraped_rows>>
       ELSE /\ total_records' = dom.total
            /\ scraped_rows' = <<>>
            /\ s_pc' = "loop"
            /\ UNCHANGED <<month_data, exits>>
    /\ UNCHANGED <<months, month_ix, all_rows, dom, tables>>
    /\ UNCHANGED <<fetchVars, genVars>>

\* records_info = soup.find(...); match = re.search(r'of (\d+) entries', ...)
ReadInfo ==
    /\ s_pc = "info"
    /\ IF dom.info = "absent" THEN
            /\ Return("no_info", <<>>)
            /\ UNCHANGED <<total_records, scraped_rows>>
       ELSE IF dom.info = "nomatch" THEN
            /\ Return("no_match", <<>>)
            /\ UNCHANGED <<total_records, scraped_rows>>
       ELSE /\ total_records' = dom.total
            /\ scraped_rows' = <<>>
            /\ s_pc' = "loop"
            /\ UNCHANGED <<month_data, exits>>
    /\ UNCHANGED <<months, month_ix, all_rows, dom, tables>>
    /\ UNCHANGED <<fetchVars, genVars>>

\* while len(scraped_rows) < total_records
LoopTest ==
    /\ s_pc = "loop"
    /\ IF Len(scraped_rows) < total_records
       THEN /\ s_pc' = "table"
            /\ UNCHANGED <<month_data, exits>>
       ELSE Return("complete", scraped_rows)
    /\ UNCHANGED <<months, month_ix, all_rows, total_records, scraped_rows,
                   dom, tables>>
    /\ UNCHANGED <<fetchVars, genVars>>

\* a slip: return [] where the table is missing, the rows collected are lost
ParseTableDroppingRows ==
    /\ s_pc = "table"
    /\ IF dom.table = "absent" THEN
            /\ Return("no_table", <<>>)
            /\ UNCHANGED <<scraped_rows, tables>>
       ELSE IF dom.table = "no_tbody" THEN
            /\ Return("no_tbody", <<>>)
            /\ UNCHANGED <<scraped_rows, tables>>
       ELSE LET r == AppendRows(scraped_rows, DrawnRows(dom))
            IN  /\ scraped_rows' = r.out
                /\ tables' = Append(tables, DrawnRows(dom))
                /\ s_pc' = IF r.raised THEN "raised" ELSE "done_check"
                /\ UNCHANGED <<month_data, exits>>
    /\ UNCHANGED <<months, month_ix, all_rows, total_records, dom>>
    /\ UNCHANGED <<fetchVars, genVars>>

\* soup = BeautifulSoup(driver.page_source); table; tbody; the rows appended
ParseTable ==
    /\ s_pc = "table"
    /\ IF dom.table = "absent" THEN
            /\ Return("no_table", scraped_rows)
            /\ UNCHANGED <<scraped_rows, tables>>
       ELSE IF dom.table = "no_tbody" THEN
            /\ Return("no_tbody", scraped_rows)
            /\ UNCHANGED <<scraped_rows, tables>>
       ELSE LET r == AppendRows(scraped_rows, DrawnRows(dom))
            IN  /\ scraped_rows' = r.out
                /\ tables' = Append(tables, DrawnRows(dom))
                /\ s_pc' = IF r.raised THEN "raised" ELSE "done_check"
                /\ UNCHANGED <<month_data, exits>>
    /\ UNCHANGED <<months, month_ix, all_rows, total_records, dom>>
    /\ UNCHANGED <<fetchVars, genVars>>

\* a slip: the test after the rows are appended is left out
DoneCheckLeftOut ==
    /\ s_pc = "done_check"
    /\ s_pc' = "find_next"
    /\ UNCHANGED <<month_data, exits>>
    /\ UNCHANGED <<months, month_ix, all_rows, total_records, scraped_rows,
                   dom, tables>>
    /\ UNCHANGED <<fetchVars, genVars>>

\* if len(scraped_rows) >= total_records: break
DoneCheck ==
    /\ s_pc = "done_check"
    /\ IF Len(scraped_rows) >= total_records
       THEN Return("complete", scraped_rows)
       ELSE /\ s_pc' = "find_next"
            /\ UNCHANGED <<month_data, exits>>
    /\ UNCHANGED <<months, month_ix, all_rows, total_records, scraped_rows,
                   dom, tables>>
    /\ UNCHANGED <<fetchVars, genVars>>

\* try: next_button = driver.find_element("id", "table_1_next") except: break
FindNext ==
    /\ s_pc = "find_next"
    /\ IF dom.next
       THEN /\ s_pc' = "next_class"
            /\ UNCHANGED <<month_data, exits>>
       ELSE Return("no_next", scraped_rows)
    /\ UNCHANGED <<months, month_ix, all_rows, total_records, scraped_rows,
                   dom, tables>>
    /\ UNCHANGED <<fetchVars, genVars>>

\* if "disabled" in next_class: break
NextClass ==
    /\ s_pc = "next_class"
    /\ IF NextDisabled(dom)
       THEN Return("disabled", scraped_rows)
       ELSE /\ s_pc' = "click"
            /\ UNCHANGED <<month_data, exits>>
    /\ UNCHANGED <<months, month_ix, all_rows, total_records, scraped_rows,
                   dom, tables>>
    /\ UNCHANGED <<fetchVars, genVars>>

\* next_button.click(); time.sleep(waiting_time)
Click ==
    /\ s_pc = "click"
    /\ dom' = [dom EXCEPT !.shown = Min(dom.shown + 1, LastPageOf(dom))]
    /\ s_pc' = "loop"
    /\ UNCHANGED <<months, month_ix, all_rows, month_data, total_records,
                   scraped_rows, tables, exits>>
    /\ UNCHANGED <<fetchVars, genVars>>

\* all_rows.extend(month_data)
ExtendRows ==
    /\ s_pc = "extend"
    /\ all_rows' = all_rows \o month_data
    /\ s_pc' = "for"
    /\ UNCHANGED <<months, month_ix, month_data, total_records, scraped_rows,
                   dom, tables, exits>>
    /\ UNCHANGED <<fetchVars, genVars>>

\* the page: the table and the "next" control are redrawn for the page asked for
Redraw ==
    /\ s_pc \in InMonth
    /\ dom.drawn # dom.shown
    /\ dom' = [dom EXCEPT !.drawn = dom.shown]
    /\ UNCHANGED <<s_pc, months, month_ix, all_rows, month_data, total_records,
                   scraped_rows, tables, exits>>
    /\ UNCHANGED <<fetchVars, genVars>>

\* the page: the table, or its body, is no longer in the document
TableVanishes ==
    /\ s_pc \in InMonth
    /\ dom.table = "ok"
    /\ \E t \in {"absent", "no_tbody"} : dom' = [dom EXCEPT !.table = t]
    /\ UNCHANGED <<s_pc, months, month_ix, all_rows, month_data, total_records,
                   scraped_rows, tables, exits>>
    /\ UNCHANGED <<fetchVars, genVars>>

\* the page: the "next" control is no longer in the document
NextVanishes ==
    /\ s_pc \in InMonth
    /\ dom.next
    /\ dom' = [dom EXCEPT !.next = FALSE]
    /\ UNCHANGED <<s_pc, months, month_ix, all_rows, month_data, total_records,
                   scraped_rows, tables, exits>>
    /\ UNCHANGED <<fetchVars, genVars>>

ScrapeNext ==
    \/ ScrapeStart
    \/ ForMonth
    \/ Get
    \/ ReadInfo
    \/ LoopTest
    \/ ParseTable
    \/ DoneCheck
    \/ FindNext
    \/ NextClass
    \/ Click
    \/ ExtendRows
    \/ Redraw
    \/ TableVanishes
    \/ NextVanishes

ScrapeSpec == ScrapeInit /\ [][ScrapeNext]_vars

\* the fairness of the script: its next statement is executed
ScrapeStep ==
    \/ ForMonth
    \/ Get
    \/ ReadInfo
    \/ LoopTest
    \/ ParseTable
    \/ DoneCheck
    \/ FindNext
    \/ NextClass
    \/ Click
    \/ ExtendRows

FairScrapeSpec == ScrapeInit /\ [][ScrapeNext]_vars /\ WF_vars(ScrapeStep)

----------------------------------------------------------------------------
(* Properties *)

IsPrefix(s, t) == Len(s) <= Len(t) /\ \A i \in 1..Len(s) : s[i] = t[i]

\* the records of a response: those of a 200 answer, none otherwise
PageOf(r) == IF r.status_code = 200 THEN r.body.results ELSE <<>>

RECURSIVE Flatten(_)
Flatten(pages) ==
    IF pages = <<>> THEN <<>> ELSE Head(pages) \o Flatten(Tail(pages))

\* ceil(n / limit)
CeilPages(n) == (n + limit - 1) \div limit

AllAnswered200 ==
    /\ Len(respLog) = Len(reqLog)
    /\ \A i \in 1..Len(respLog) : respLog[i].status_code = 200

\* C1: a run started from the persisted state (offset c, records R) sends its
\* first request with offset exactly c and every later request with a strictly
\* larger offset, so every request of the run has offset >= c and no page
\* before the persisted cursor is requested again.
C1_ResumeAtCursor ==
    /\ reqLog # <<>> => reqLog[1] = disk0.offset
    /\ \A i \in 1..(Len(reqLog) - 1) : reqLog[i] < reqLog[i + 1]
    /\ \A i \in 1..Len(reqLog) : reqLog[i] >= disk0.offset

\* a run resumed from a snapshot an earlier run wrote has sent its second
\* request
C1_Witness ==
    /\ disk0.exists
    /\ disk0.offset >= limit
    /\ Len(reqLog) >= 2

\* C2: from no state file, with every request answered 200 by an endpoint
\* whose N records do not change during the run, N not a multiple of limit,
\* the run ends after exactly ceil(N/limit) requests with exactly the records
\* 1..N, each once and in order, in memory and in the file, and with the
\* cursor ceil(N/limit)*limit in memory and in the file.
C2_WholeListing ==
    (/\ pc = "done"
     /\ ~disk0.exists
     /\ available = avail0
     /\ AllAnswered200
     /\ available % limit # 0)
    => /\ Len(reqLog) = CeilPages(available)
       /\ all_launches = [i \in 1..available |-> i]
       /\ offset = CeilPages(available) * limit
       /\ load_existing_data(file) = [offset |-> offset, results |-> all_launches]

\* the endpoint serves pages of 100, 100 and 42 records: three requests, 242
\* records, the cursor 300 in the file
C2_Witness ==
    /\ pc = "done"
    /\ ~disk0.exists
    /\ available = avail0
    /\ AllAnswered200
    /\ [i \in 1..Len(respLog) |-> Len(respLog[i].body.results)] = <<100, 100, 42>>
    /\ Len(reqLog) = 3
    /\ Len(all_launches) = 242
    /\ load_existing_data(file).offset = 300

FirstPageEmpty ==
    /\ respLog # <<>>
    /\ respLog[1].status_code = 200
    /\ respLog[1].body.results = <<>>

\* C3: when the first page of a run is a 200 answer with an empty results
\* list, the run makes no second request and goes on to stop; the file is not
\* written (it stays absent when it was absent) and the cursor and the records
\* in memory stay as loaded (0 and none without a file).
C3_EmptyFirstPage ==
    FirstPageEmpty =>
        /\ Len(reqLog) = 1
        /\ pc \in {"status", "parse", "done"}
        /\ writes = 0
        /\ file = IF disk0.exists
                  THEN save_data(disk0.offset, disk0.results) ELSE NoFile
        /\ offset = disk0.offset
        /\ all_launches = disk0.results
        /\ ~disk0.exists =>
              /\ offset = 0
              /\ all_launches = <<>>
              /\ ~file.exists

\* a run without a state file has stopped on an empty first page
C3_Witness ==
    /\ FirstPageEmpty
    /\ pc = "done"
    /\ ~disk0.exists
    /\ ~file.exists


\* the records a restart would load from the file
Persisted == load_existing_data(file).results

\* C4: at every point of a run, killed or not, the record list in the file is
\* a prefix of the list in memory, and the list in memory is longer by at most
\* limit records: a kill loses at most one page.
C4_AtMostOnePageLost ==
    pc \in Running \cup {"done"} =>
        /\ IsPrefix(Persisted, all_launches)
        /\ Len(all_launches) - Len(Persisted) <= limit

\* a full page is in memory and not yet in the file, which holds earlier pages
C4_Witness ==
    /\ pc = "save"
    /\ writes >= 1
    /\ Len(all_launches) - Len(Persisted) = limit

HttpFailed == respLog # <<>> /\ StatusFailed(Last(respLog))

\* C5: after a request answered with a status other than 200 the run sends no
\* further request, does not end by an exception, and the file holds the cursor
\* and records as they were after the last page that succeeded (as loaded, when
\* none did); the run started after it sends its first request with that cursor.
C5_HttpFailureKeepsProgress ==
    /\ HttpFailed =>
          /\ Last(reqLog) = offset
          /\ Len(reqLog) = Len(respLog)
          /\ pc \in {"status", "done"}
          /\ file = IF disk.exists THEN save_data(disk.offset, disk.results) ELSE NoFile
          /\ disk = IF writes = 0 THEN disk0 ELSE
                       [exists |-> TRUE, offset |-> Last(reqLog),
                        results |-> disk0.results \o
                           Flatten([i \in 1..(Len(respLog) - 1) |-> PageOf(respLog[i])])]
          /\ load_existing_data(file) = [offset |-> offset, results |-> all_launches]
    /\ (prevExit = "http_error" /\ reqLog # <<>>) =>
          reqLog[1] = disk0.offset

\* a run stopped by a failed request after a page was saved, and the next run
\* has sent its first request
C5_Witness ==
    /\ prevExit = "http_error"
    /\ disk0.offset >= limit
    /\ Len(disk0.results) >= limit
    /\ reqLog # <<>>


\* the number of records in the file (none when there is no file)
SnapshotSize(f) == Len(load_existing_data(f).results)

\* C6: whatever the runs do and however each ends (normally, on a failed
\* request, by an exception, by a kill), every write of the file leaves at
\* least as many records in it as it held before.
C6_SnapshotsGrow == [][SnapshotSize(file') >= SnapshotSize(file)]_vars

\* a run resumed from an earlier run's snapshot has written a larger one
C6_Witness ==
    /\ Len(disk0.results) >= limit
    /\ writes >= 1
    /\ SnapshotSize(file) > Len(disk0.results)

Snapshot == load_existing_data(file)

\* C7 as stated: in every snapshot of runs that began without a state file,
\* offset == len(results).
C7_OffsetIsRecordCount ==
    (fresh /\ file.exists) => Snapshot.offset = Len(Snapshot.results)

\* C7 amended: in every snapshot of runs that began without a state file the
\* cursor is a multiple of limit and at least len(results), and it equals
\* len(results) exactly as long as no saved page was shorter than limit.
C7_OffsetCountsPages ==
    (fresh /\ file.exists) =>
        /\ Snapshot.offset % limit = 0
        /\ Snapshot.offset >= Len(Snapshot.results)
        /\ (Snapshot.offset = Len(Snapshot.results)) <=> ~shortSeen

\* a snapshot written from no file after full pages and a short one: the
\* cursor is past the number of records
C7_Witness ==
    /\ fresh
    /\ file.exists
    /\ shortSeen
    /\ Len(Snapshot.results) > limit
    /\ Snapshot.offset > Len(Snapshot.results)

\* the responses of this run whose records have been appended
Processed ==
    IF pc \in {"status", "parse", "extend"}
    THEN SubSeq(respLog, 1, Len(respLog) - 1)
    ELSE respLog

\* C8: the record list in memory is the list loaded at the start of the run
\* followed by the results of the answered pages in the order of the requests;
\* nothing loaded or appended is removed, reordered or left out as a duplicate.
C8_FetchOrderKept ==
    pc \in Running \cup {"done"} =>
        all_launches =
            disk0.results \o Flatten([i \in 1..Len(Processed) |-> PageOf(Processed[i])])

\* a record the file already held twice was fetched again and is in the list
\* a third time
C8_Witness ==
    /\ pc = "done"
    /\ Len(respLog) >= 2
    /\ Len(disk0.results) >= 2
    /\ disk0.results[1] = disk0.results[2]
    /\ \E i \in 3..Len(all_launches) : all_launches[i] = all_launches[1]

\* C9: what load_existing_data reads from the file save_data writes is the
\* cursor and the record sequence that were saved, for the dataset in memory
\* at any time and for the one last saved; without a file it reads cursor 0
\* and no records.
C9_RoundTrip ==
    /\ load_existing_data(save_data(offset, all_launches))
          = [offset |-> offset, results |-> all_launches]
    /\ file.exists =>
          load_existing_data(file) = [offset |-> disk.offset, results |-> disk.results]
    /\ ~file.exists =>
          load_existing_data(file) = [offset |-> 0, results |-> <<>>]
    /\ (pc = "request" /\ reqLog = <<>>) =>
          /\ offset = disk.offset
          /\ all_launches = disk.results

\* a saved dataset of several pages with a repeated record was loaded by the
\* next run
C9_Witness ==
    /\ pc = "request"
    /\ reqLog = <<>>
    /\ file.exists
    /\ offset > limit
    /\ Len(all_launches) > limit
    /\ all_launches[1] = all_launches[2]

FullPage(r) == r.status_code = 200 /\ Len(r.body.results) = limit

\* C10: a run is at the top of its loop again only after a 200 page of exactly
\* limit records, so a page of no records or of fewer than limit ends the
\* requests of the run; it never stops normally after a page of exactly limit
\* records but goes on to the next request; and a run that is not killed stops.
C10_StopsOnLastPage ==
    /\ []((pc = "request" /\ respLog # <<>>) => FullPage(Last(respLog)))
    /\ []((pc = "done") => (respLog # <<>> /\ ~FullPage(Last(respLog))))
    /\ [][(pc = "short" /\ Len(results) = limit /\ pc' \notin {"short", "killed"})
              => (pc' = "request" /\ reqLog' = reqLog)]_vars
    /\ [][(pc = "request" /\ pc' \notin {"request", "killed"})
              => reqLog' = Append(reqLog, offset)]_vars
    /\ (pc \in Running) ~> (pc \in Stopped)

\* a run has stopped normally on a short page after full pages
C10_Witness ==
    /\ pc = "done"
    /\ Len(respLog) >= 3
    /\ FullPage(respLog[2])
    /\ Last(respLog).status_code = 200
    /\ Len(Last(respLog).body.results) \in 1..(limit - 1)


----------------------------------------------------------------------------
(* Properties of the scraper *)

\* the cells 2..7 of a table row, stripped, under the six field names
FieldsOf(cols) ==
    [datetime |-> [text |-> cols[2].text, padded |-> FALSE],
     city |-> [text |-> cols[3].text, padded |-> FALSE],
     state |-> [text |-> cols[4].text, padded |-> FALSE],
     country |-> [text |-> cols[5].text, padded |-> FALSE],
     shape |-> [text |-> cols[6].text, padded |-> FALSE],
     summary |-> [text |-> cols[7].text, padded |-> FALSE]]

\* the records of the rows of a parsed table that have the cells of a record
RECURSIVE RecordsOf(_)
RecordsOf(rows) ==
    IF rows = <<>> THEN <<>>
    ELSE IF Len(Head(rows)) >= FullCols
         THEN <<FieldsOf(Head(rows))>> \o RecordsOf(Tail(rows))
         ELSE RecordsOf(Tail(rows))

\* the rows collected for this month: those of every table parsed, in turn
Collected == Flatten([i \in 1..Len(tables) |-> RecordsOf(tables[i])])

RECURSIVE SumN(_)
SumN(es) == IF es = <<>> THEN 0 ELSE Head(es).n + SumN(Tail(es))

StructureLost == {"no_table", "no_tbody", "no_next"}

\* C11: when the table, its body or the "next" control is missing after k rows
\* were collected, k below the total reported, scrape_month returns exactly
\* those k rows and does not raise; scrape_nuforc_data appends them and goes on:
\* it finishes only after scrape_month was called for every month.
C11_PartialRowsKept ==
    /\ (s_pc = "extend" /\ Last(exits).why \in StructureLost) =>
          /\ month_data = Collected
          /\ Len(month_data) < total_records
          /\ Last(exits).n = Len(month_data)
    /\ s_pc \in {"for", "finished"} =>
          /\ Len(exits) = month_ix
          /\ Len(all_rows) = SumN(exits)
    /\ s_pc = "finished" => Len(exits) = Len(months)

\* the page reports 5 entries and the table is gone after 2 rows were
\* collected; another month is still to be scraped
C11_Witness ==
    /\ s_pc = "extend"
    /\ total_records = 5
    /\ Last(exits).why = "no_table"
    /\ Len(month_data) = 2
    /\ month_ix < Len(months)


NoRepeat(rows) ==
    \A i \in 1..Len(rows) : \A j \in 1..Len(rows) : i # j => rows[i] # rows[j]

\* C12: every iteration of the loop of scrape_month appends only rows not yet
\* collected, so neither the list being collected nor the list returned for a
\* month holds the same table row twice, also when the table is still the old
\* one after a click on "next".
C12_NoRowTwice ==
    /\ NoRepeat(scraped_rows)
    /\ s_pc = "extend" => NoRepeat(month_data)


NoCount == dom.info \in {"absent", "nomatch"}

\* C13: for a month whose page has no count element, or a count text without
\* 'of N entries', scrape_month returns an empty list without raising, without
\* parsing the table and without a click; the month adds no row to all_rows,
\* the rows of earlier months stay as they are, and scrape_month is still
\* called for every later month.
C13_MonthSkipped ==
    /\ [](/\ (NoCount /\ s_pc \in InMonth) => s_pc = "info"
          /\ (NoCount /\ s_pc = "raised") => FALSE
          /\ (NoCount /\ s_pc = "extend") =>
                /\ Last(exits).why \in {"no_info", "no_match"}
                /\ Last(exits).n = 0
                /\ month_data = <<>>
                /\ tables = <<>>
                /\ dom.shown = 1
          /\ \A i \in 1..Len(exits) :
                exits[i].why \in {"no_info", "no_match"} => exits[i].n = 0
          /\ s_pc = "finished" => Len(exits) = Len(months))
    /\ [][(NoCount /\ s_pc = "extend" /\ s_pc' # s_pc)
             => (all_rows' = all_rows /\ s_pc' = "for")]_vars

\* rows were collected for the first month, the second month's page has no
\* count, and the scraper has finished
C13_Witness ==
    /\ s_pc = "finished"
    /\ Len(exits) = 2
    /\ exits[1].n > 0
    /\ exits[2].why \in {"no_info", "no_match"}
    /\ Len(all_rows) = exits[1].n


\* a 200 answer with at least one record
NonEmptyOk(r) == r.status_code = 200 /\ r.body.results # <<>>

\* the responses of this run whose turn of the loop has passed its save_data
Written ==
    IF pc \in {"status", "parse", "extend", "bump", "save"}
    THEN SubSeq(respLog, 1, Len(respLog) - 1)
    ELSE respLog

Count(seq, P(_)) == Cardinality({i \in 1..Len(seq) : P(seq[i])})

\* C14: in a run the state file has been written once for each answered page
\* that had records, and not for an empty page or a failed request; a write
\* happens only at save_data, and the file it leaves loads as the current
\* offset and the whole list: the records loaded at the start followed by
\* every page of the run, not the newest page alone.
C14_OneWholeWritePerPage ==
    /\ [](pc \in Running \cup {"done", "raised"} =>
             writes = Count(Written, NonEmptyOk))
    /\ [][(file' # file \/ writes' > writes) =>
             /\ pc = "save"
             /\ NonEmptyOk(response)
             /\ writes' = writes + 1
             /\ file' = save_data(offset, all_launches)
             /\ load_existing_data(file') =
                   [offset |-> offset,
                    results |-> disk0.results \o
                       Flatten([i \in 1..Len(respLog) |-> PageOf(respLog[i])])]
          ]_vars

\* the second write of a run that started from a file with records
C14_Witness ==
    /\ pc = "short"
    /\ writes = 2
    /\ disk0.results # <<>>
    /\ Len(load_existing_data(file).results) = Len(disk0.results) + 2 * limit


\* the rows of the tables parsed for this month that have at least 5 cells
RowsWithMinCols ==
    Flatten([i \in 1..Len(tables) |->
                SelectSeq(tables[i], LAMBDA cols : Len(cols) >= MinCols)])

\* C15: scrape_month does not raise on a table row, whatever its number of
\* cells; once a table has been gone through, the rows collected are one
\* record for each row of at least 5 cells of the tables parsed, and none for
\* a row of fewer cells.
C15_RowsExtractedOrSkipped ==
    /\ s_pc # "raised"
    /\ s_pc = "done_check" => Len(scraped_rows) = Len(RowsWithMinCols)


\* C16: when the script has only been run to its normal end, from no state
\* file, against a listing that only grows at its end, the file after a run
\* holds every record of the listing, as it was at the run's last request,
\* whose index is below the cursor in the file: no record below the cursor is
\* left unfetched.
C16_NoGapBelowCursor ==
    (fresh /\ pc = "done") =>
        \A i \in 1..Min(Snapshot.offset, Last(respLog).body.count) :
            \E k \in 1..Len(Snapshot.results) : Snapshot.results[k] = i


\* C17: a run started after a run that ended on an empty or a short page,
\* while the listing is the one that page was taken from, sends one request
\* and no more, appends no record and writes nothing: the file, its cursor
\* and its records are those the run found, so no record is there twice
\* however often the script is run again.
C17_RerunChangesNothing ==
    (prevExit = "settled" /\ available = avail0) =>
        /\ Len(reqLog) <= 1
        /\ pc \in {"request", "status", "parse", "done", "raised"}
        /\ pc \in {"status", "parse", "done", "raised"} => Len(reqLog) = 1
        /\ writes = 0
        /\ all_launches = disk0.results
        /\ disk = disk0
        /\ Snapshot = [offset |-> disk0.offset, results |-> disk0.results]
        /\ offset = disk0.offset

\* the run after a run that fetched a full and a short page has ended
C17_Witness ==
    /\ prevExit = "settled"
    /\ available = avail0
    /\ pc = "done"
    /\ Len(reqLog) = 1
    /\ Last(respLog).status_code = 200
    /\ Len(Snapshot.results) = limit + LastPage
    /\ Snapshot.offset = 2 * limit


\* C18: the loop of scrape_month comes to an end for every month; it is left
\* at the test that finds the rows collected to be no fewer than the total,
\* at the "next" control found missing and at the control found disabled, and
\* the control is looked for, read and clicked only while the rows collected
\* are fewer than the total.
C18_LoopEnds ==
    /\ [](s_pc \in {"find_next", "next_class", "click"} =>
             Len(scraped_rows) < total_records)
    /\ [][(s_pc = "click" /\ s_pc' # s_pc) =>
             (Len(scraped_rows) < total_records /\ s_pc' = "loop")]_vars
    /\ [][(s_pc = "done_check" /\ Len(scraped_rows) >= total_records /\ s_pc' # s_pc)
             => s_pc' = "extend"]_vars
    /\ [][(s_pc = "loop" /\ Len(scraped_rows) >= total_records /\ s_pc' # s_pc)
             => s_pc' = "extend"]_vars
    /\ [][(s_pc = "find_next" /\ ~dom.next /\ s_pc' # s_pc) => s_pc' = "extend"]_vars
    /\ [][(s_pc = "next_class" /\ NextDisabled(dom) /\ s_pc' # s_pc)
             => s_pc' = "extend"]_vars
    /\ (s_pc \in InMonth) ~> (s_pc \notin InMonth)

\* the loop was left at the disabled control after one click, short of the total
C18_Witness ==
    /\ s_pc = "extend"
    /\ Last(exits).why = "disabled"
    /\ dom.shown = 2
    /\ Len(tables) = 2
    /\ Len(month_data) < total_records


YearOf(tok) == StrToInt(SubSeq(tok, 1, 4))
MonthOf(tok) == StrToInt(SubSeq(tok, 5, 6))

\* the number of the calendar month of a token, counted from year 0
Ordinal(tok) == 12 * YearOf(tok) + MonthOf(tok) - 1

\* C19: for 'yyyymm' strings start and end with months 01..12,
\* generate_months returns the calendar months from start to end inclusive,
\* each as a 'yyyymm' string, each the month after the one before it (January
\* of the next year after December); there are
\* 12*(end_year-start_year)+(end_month-start_month)+1 of them when start is
\* not after end, and none when it is.
C19_EveryMonthInOrder ==
    g_pc = "returned" =>
        LET n == 12 * (YearOf(g_end) - YearOf(g_start))
                    + (MonthOf(g_end) - MonthOf(g_start)) + 1
        IN  /\ Len(g_months) = IF Ordinal(g_start) <= Ordinal(g_end) THEN n ELSE 0
            /\ \A i \in 1..Len(g_months) :
                  /\ Len(g_months[i]) = 6
                  /\ MonthOf(g_months[i]) \in 1..12
                  /\ Ordinal(g_months[i]) = Ordinal(g_start) + i - 1
            /\ g_months # <<>> =>
                  /\ g_months[1] = g_start
                  /\ g_months[Len(g_months)] = g_end
            /\ \A i \in 1..(Len(g_months) - 1) :
                  IF MonthOf(g_months[i]) = 12
                  THEN /\ MonthOf(g_months[i + 1]) = 1
                       /\ YearOf(g_months[i + 1]) = YearOf(g_months[i]) + 1
                  ELSE /\ MonthOf(g_months[i + 1]) = MonthOf(g_months[i]) + 1
                       /\ YearOf(g_months[i + 1]) = YearOf(g_months[i])

\* from November to February of the next year: four months, December and
\* January among them
C19_Witness ==
    /\ g_pc = "returned"
    /\ g_start = MonthToken(FirstYear, 11)
    /\ g_end = MonthToken(FirstYear + 1, 2)
    /\ Len(g_months) = 4
    /\ g_months[2] = MonthToken(FirstYear, 12)
    /\ g_months[3] = MonthToken(FirstYear + 1, 1)


====
